---- MODULE Spec2Model ----
(***************************************************************************)
(* CRM backend: the HTTP application (idempotency middleware, bearer       *)
(* authentication, role gate, auth/contacts routers) and the orders and    *)
(* payments routers, over the relational tables they read and write.       *)
(*                                                                         *)
(* A request occupies one worker slot.  Its life is                        *)
(*   Dispatch   IdempotencyMiddleware.dispatch up to call_next (or replay) *)
(*   CallNext   routing, dependencies (get_current_user, require_role),    *)
(*              body validation and the route handler                      *)
(*   StoreRecord  the middleware's capture and insert of the record        *)
(* and requests in different slots interleave between these steps.         *)
(***************************************************************************)
EXTENDS Integers, Sequences, FiniteSets, TLC

VARIABLES
    db,         \* committed contents of the tables and their id sequences
    req,        \* the request each worker slot is processing
    nreq,       \* requests issued so far
    env,        \* what the deployment fixes: library behaviour, catalogue
    handlerOut  \* history: idempotency record id -> what the handler answered

vars == <<db, req, nreq, env, handlerOut>>

(***************************************************************************)
(* Bounds of the model.                                                    *)
(***************************************************************************)
MaxRequests == 3
MaxAuthRequests == 2
\* The clock runs from 0 to MaxTime.
MaxTime == 4
\* The number of migration commands run.
MaxCommands == 5

Slots == {"a", "b"}

(***************************************************************************)
(* Nullable values (Python None / SQL NULL): the empty or one-element      *)
(* sequence.                                                               *)
(***************************************************************************)
Null == <<>>
Some(v) == <<v>>
Val(o) == o[1]

(***************************************************************************)
(* JSON.  An object is a sequence of <<key, value>> pairs; a scalar value  *)
(* is Null (null) or Some(text).  The empty object {} is <<>>.             *)
(***************************************************************************)
EmptyObject == <<>>
JsonKeys(obj) == {obj[i][1] : i \in DOMAIN obj}
JsonGet(obj, k) == obj[CHOOSE i \in DOMAIN obj : obj[i][1] = k][2]
JsonInt(n) == Some(ToString(n))
ParseInt(s) == CHOOSE n \in 0..99 : ToString(n) = s
Detail(msg) == << <<"detail", Some(msg)>> >>

(***************************************************************************)
(* hashlib.sha256(body).hexdigest(): a collision-free digest of the raw    *)
(* bytes, tagged so that a digest is never the bytes themselves.           *)
(***************************************************************************)
Sha256Hex(bytes) == <<"sha256", bytes>>
BodyHash(body_bytes) == IF body_bytes # <<>> THEN Some(Sha256Hex(body_bytes)) ELSE Null

(***************************************************************************)
(* Responses.  A response built by a handler or by JSONResponse carries    *)
(* its rendered body in the attribute "body"; the response call_next hands *)
(* to a BaseHTTPMiddleware is a streaming response, which has a            *)
(* body_iterator and no attribute "body".                                  *)
(***************************************************************************)
JSONResponse(content, status_code) == [status_code |-> status_code, body |-> content]
StreamingResponse(content, status_code) ==
    [status_code |-> status_code, body_iterator |-> content]
ClientBody(response) ==
    IF "body" \in DOMAIN response THEN response.body ELSE response.body_iterator

(***************************************************************************)
(* Tables.                                                                 *)
(***************************************************************************)
NextId(dbv, table) == dbv.seq[table] + 1
Bump(dbv, table) == [dbv.seq EXCEPT ![table] = @ + 1]

UserRow(id, email, password_hash, role) ==
    [id |-> id, email |-> email, password_hash |-> password_hash, role |-> role]
ContactRow(id, name, email, phone, tags) ==
    [id |-> id, name |-> name, email |-> email, phone |-> phone, tags |-> tags]
IdempotencyKey(id, key, method, path, body_hash, response_status, response_body) ==
    [id |-> id, key |-> key, method |-> method, path |-> path, body_hash |-> body_hash,
     response_status |-> response_status, response_body |-> response_body]

(***************************************************************************)
(* Authentication and the role gate.                                       *)
(***************************************************************************)
hash_password(password) == <<"bcrypt", password>>
verify_password(password, password_hash) == password_hash = <<"bcrypt", password>>

\* Lifetime of a token, in ticks of the clock (JWT_EXPIRES, in seconds).
JWT_EXPIRES == 2

\* jwt.encode: the payload, signed with JWT_SECRET.
create_token(user_id, email, role, now) ==
    [sub |-> ToString(user_id), email |-> email, role |-> role, iat |-> now,
     exp |-> now + JWT_EXPIRES, sig_ok |-> TRUE]

\* A verification that did not look at exp.
decode_token_IgnoreExp(token, now) == IF token.sig_ok THEN Some(token) ELSE Null

\* jwt.decode: the payload when the signature verifies and exp is in the
\* future; otherwise it raises (InvalidSignatureError, ExpiredSignatureError).
decode_token(token, now) ==
    IF token.sig_ok /\ token.exp > now THEN Some(token) ELSE Null

AuthOk(user) == [status |-> 200, detail |-> "", user |-> Some(user)]
AuthFail(status, detail) == [status |-> status, detail |-> detail, user |-> Null]

get_current_user(creds, usersTbl, envv) ==
    IF creds = Null THEN AuthFail(envv.missingStatus, "Not authenticated")
    ELSE LET payload == decode_token(Val(creds), envv.now) IN
         IF payload = Null THEN AuthFail(401, "Invalid token")
         ELSE LET found == {u \in usersTbl : u.id = ParseInt(Val(payload).sub)} IN
              IF found = {} THEN AuthFail(401, "User not found")
              ELSE AuthOk(CHOOSE u \in found : TRUE)

\* A gate that authenticates without comparing the role.
require_role_NoCheck(roles, creds, usersTbl, envv) ==
    get_current_user(creds, usersTbl, envv)

RoleAllowed(role, roles) == role \in roles

require_role(roles, creds, usersTbl, envv) ==
    LET r == get_current_user(creds, usersTbl, envv) IN
    IF r.status # 200 THEN r
    ELSE IF ~RoleAllowed(Val(r.user).role, roles) THEN AuthFail(403, "Forbidden")
    ELSE r

(***************************************************************************)
(* Routing.  The four routers declare these routes; the application serves *)
(* those of the routers it includes (app.include_router).                  *)
(***************************************************************************)
ActiveRouters == {"auth", "contacts"}
AllRouters == {"auth", "contacts", "orders", "payments"}

Route(method, path) ==
    CASE path = <<"contacts">> /\ method = "POST" -> "create_contact"
      [] path = <<"contacts">> /\ method = "GET" -> "list_contacts"
      [] Len(path) = 2 /\ path[1] = "contacts" /\ method = "GET" -> "get_contact"
      [] Len(path) = 2 /\ path[1] = "contacts" /\ method = "PUT" -> "update_contact"
      [] Len(path) = 2 /\ path[1] = "contacts" /\ method = "DELETE" -> "delete_contact"
      [] path = <<"auth", "register">> /\ method = "POST" -> "register"
      [] path = <<"auth", "login">> /\ method = "POST" -> "login"
      [] path = <<"orders">> /\ method = "POST" -> "create_order"
      [] path = <<"payments">> /\ method = "POST" -> "create_payment"
      [] Len(path) = 2 /\ path[1] = "orders" /\ method = "GET" -> "get_order"
      [] Len(path) = 2 /\ path[1] = "orders" /\ method = "PUT" -> "update_order"
      [] Len(path) = 2 /\ path[1] = "payments" /\ method = "PUT" -> "update_payment"
      [] OTHER -> "none"

RouterOf(route) ==
    CASE route \in {"register", "login"} -> "auth"
      [] route \in {"create_order", "get_order", "update_order"} -> "orders"
      [] route \in {"create_payment", "update_payment"} -> "payments"
      [] route = "none" -> "none"
      [] OTHER -> "contacts"

AllowedRoles(route) ==
    CASE route \in {"create_contact", "list_contacts", "get_contact",
                    "create_order", "create_payment", "get_order"} ->
             {"owner", "manager", "agent"}
      [] route \in {"update_contact", "delete_contact", "update_order",
                    "update_payment"} -> {"owner", "manager"}
      [] route = "register" -> {"owner"}
      [] OTHER -> {}

(***************************************************************************)
(* What a route answers: the tables after it, the status and JSON body,    *)
(* whether the route function was entered and whether it ended in an       *)
(* unhandled exception.                                                    *)
(***************************************************************************)
Reply(dbv, status, json) ==
    [db |-> dbv, status |-> status, json |-> json, raised |-> FALSE, ran |-> TRUE,
     pending |-> "", tx |-> Null]
\* An HTTPException raised by a dependency, or a validation error: the route
\* function is not entered.
Abort(dbv, status, json) ==
    [db |-> dbv, status |-> status, json |-> json, raised |-> FALSE, ran |-> FALSE,
     pending |-> "", tx |-> Null]
\* An exception no handler catches: the server error middleware answers 500.
Raise(dbv) ==
    [db |-> dbv, status |-> 500, json |-> Detail("Internal Server Error"),
     raised |-> TRUE, ran |-> TRUE, pending |-> "", tx |-> Null]
\* The route function has read or flushed and its commit is still to come;
\* `tx` is what its session holds.
Suspend(dbv, pending, tx) ==
    [db |-> dbv, status |-> 0, json |-> EmptyObject, raised |-> FALSE, ran |-> TRUE,
     pending |-> pending, tx |-> tx]

ContactFields == {"name", "email", "phone", "tags"}
\* A merge that skipped the fields supplied as null.
FieldOr_SkipNull(body, k, default) ==
    IF k \in JsonKeys(body) /\ JsonGet(body, k) # Null THEN JsonGet(body, k) ELSE default

FieldOr(body, k, default) == IF k \in JsonKeys(body) THEN JsonGet(body, k) ELSE default

ContactOut(obj) ==
    << <<"id", JsonInt(obj.id)>>, <<"name", obj.name>>, <<"email", obj.email>>,
       <<"phone", obj.phone>>, <<"tags", obj.tags>> >>

\* A JSON body is required: an empty body fails validation.
ValidContactIn(body) == body # <<>>

create_contact(dbv, body) ==
    LET obj == ContactRow(NextId(dbv, "contacts"),
                          FieldOr(body, "name", Null), FieldOr(body, "email", Null),
                          FieldOr(body, "phone", Null), FieldOr(body, "tags", Null))
    IN Reply([dbv EXCEPT !.contacts = @ \cup {obj}, !.seq = Bump(dbv, "contacts")],
             200, ContactOut(obj))

ContactsById(dbv, contact_id) == {c \in dbv.contacts : c.id = contact_id}

\* limit: int = Query(50, le=200); offset: int = 0.
LimitDefault == 50
LimitMax == 200
DefaultQuery == [limit |-> LimitDefault, offset |-> 0]

\* A validation that accepted every limit.
ValidListQuery_Any(query) == TRUE

ValidListQuery(query) == query.limit <= LimitMax

\* ORDER BY created_at DESC: the newest first (ids grow with created_at).
RECURSIVE NewestFirst(_)
NewestFirst(rows) ==
    IF rows = {} THEN <<>>
    ELSE LET newest == CHOOSE r \in rows : \A x \in rows : x.id <= r.id
         IN <<newest>> \o NewestFirst(rows \ {newest})

\* OFFSET offset LIMIT limit.
Page(rows, query) ==
    LET last == IF query.offset + query.limit < Len(rows)
                THEN query.offset + query.limit ELSE Len(rows)
    IN SubSeq(rows, query.offset + 1, last)

list_contacts(dbv, query) ==
    LET page == Page(NewestFirst(dbv.contacts), query)
    IN Reply(dbv, 200, << <<"ids", Some([i \in DOMAIN page |-> page[i].id])>> >>)

get_contact(dbv, contact_id) ==
    IF ContactsById(dbv, contact_id) = {} THEN Reply(dbv, 404, Detail("Not found"))
    ELSE Reply(dbv, 200, ContactOut(CHOOSE c \in ContactsById(dbv, contact_id) : TRUE))

update_contact(dbv, contact_id, body) ==
    IF ContactsById(dbv, contact_id) = {} THEN Reply(dbv, 404, Detail("Not found"))
    ELSE LET obj == CHOOSE c \in ContactsById(dbv, contact_id) : TRUE
             \* body.dict(exclude_unset=True): only the supplied fields are set
             new == ContactRow(obj.id,
                               FieldOr(body, "name", obj.name),
                               FieldOr(body, "email", obj.email),
                               FieldOr(body, "phone", obj.phone),
                               FieldOr(body, "tags", obj.tags))
         IN Reply([dbv EXCEPT !.contacts = (@ \ {obj}) \cup {new}],
                  200, ContactOut(new))

\* A schema without foreign keys to contacts.id.
ContactReferences_None(dbv, contact_id) == {}

\* The rows whose foreign key to contacts.id names this contact.  None of
\* these keys has an ON DELETE action, so the DELETE of a referenced contact
\* is refused at commit.
ContactReferences(dbv, contact_id) ==
    {r \in dbv.orders \cup dbv.interactions \cup dbv.tasks \cup dbv.customer_stats :
        r.contact_id = contact_id}

delete_contact(dbv, contact_id) ==
    IF ContactsById(dbv, contact_id) = {} THEN Reply(dbv, 404, Detail("Not found"))
    ELSE IF ContactReferences(dbv, contact_id) # {} THEN Raise(dbv)
    ELSE Reply([dbv EXCEPT !.contacts = @ \ ContactsById(dbv, contact_id)],
               200, << <<"ok", Some("true")>> >>)

(***************************************************************************)
(* POST /auth/register.  The handler looks the e-mail up and, finding      *)
(* none, inserts the user and commits; other requests may commit between   *)
(* the lookup and the commit.  The unique index ix_users_email makes the   *)
(* INSERT fail when the e-mail is already stored.                          *)
(***************************************************************************)
ValidRegisterIn(body) == body # <<>> /\ {"email", "password", "role"} \subseteq JsonKeys(body)

EmailTaken(usersTbl, email) == \E u \in usersTbl : u.email = email

\* A users table without the unique index on email.
UniqueViolation_None(usersTbl, row) == FALSE

UniqueViolation(usersTbl, row) == \E u \in usersTbl : u.email = row.email

register_commit(dbv, body) ==
    LET user == UserRow(NextId(dbv, "users"), Val(JsonGet(body, "email")),
                        hash_password(Val(JsonGet(body, "password"))),
                        Val(JsonGet(body, "role")))
    IN IF UniqueViolation(dbv.users, user)
       THEN Raise([dbv EXCEPT !.seq = Bump(dbv, "users")])
       ELSE Reply([dbv EXCEPT !.users = @ \cup {user}, !.seq = Bump(dbv, "users")],
                  200,
                  << <<"id", JsonInt(user.id)>>, <<"email", Some(user.email)>>,
                     <<"role", Some(user.role)>> >>)

(***************************************************************************)
(* POST /auth/login: no dependency but the session.                        *)
(***************************************************************************)
ValidLoginIn(body) == {"email", "password"} \subseteq JsonKeys(body)

login(dbv, body, now) ==
    LET found == {u \in dbv.users : Some(u.email) = JsonGet(body, "email")} IN
    IF found = {} THEN Reply(dbv, 401, Detail("Invalid credentials"))
    ELSE LET user == CHOOSE u \in found : TRUE IN
         IF ~verify_password(Val(JsonGet(body, "password")), user.password_hash)
         THEN Reply(dbv, 401, Detail("Invalid credentials"))
         ELSE Reply(dbv, 200, << <<"access_token",
                                   Some(create_token(user.id, user.email, user.role, now))>>,
                                 <<"token_type", Some("bearer")>> >>)

(***************************************************************************)
(* Money.  A Decimal is counted in thousandths; a Numeric(12, 2) column    *)
(* stores it rounded to two fractional digits, ties away from zero.        *)
(***************************************************************************)
Abs(m) == IF m < 0 THEN 0 - m ELSE m
Numeric2(m) == (IF m < 0 THEN 0 - 1 ELSE 1) * (((Abs(m) + 5) \div 10) * 10)
\* str() of a Decimal read back from a Numeric(12, 2) column: two digits
\* after the point.
Digits2(n) == IF n < 10 THEN "0" \o ToString(n) ELSE ToString(n)
DecimalStr(m) ==
    Some((IF m < 0 THEN "-" ELSE "") \o ToString(Abs(m) \div 1000) \o "."
         \o Digits2((Abs(m) % 1000) \div 10))

(***************************************************************************)
(* POST /orders: the order is flushed (inserted inside the transaction,    *)
(* which takes its id and checks its foreign key), then the items are      *)
(* added and everything is committed.                                      *)
(***************************************************************************)
OrderRow(id, contact_id, status, total, currency) ==
    [id |-> id, contact_id |-> contact_id, status |-> status, total |-> total,
     currency |-> currency]
OrderItemRow(id, order_id, product_id, variant_id, qty, price) ==
    [id |-> id, order_id |-> order_id, product_id |-> product_id,
     variant_id |-> variant_id, qty |-> qty, price |-> price]
PaymentRow(id, order_id, status, amount, currency, provider) ==
    [id |-> id, order_id |-> order_id, status |-> status, amount |-> amount,
     currency |-> currency, provider |-> provider, tx_id |-> Null, fee |-> Null]

RECURSIVE SumFrom(_, _, _)
SumFrom(items, i, acc) ==
    IF i > Len(items) THEN acc
    ELSE SumFrom(items, i + 1, acc + items[i].price * items[i].qty)

calc_total(items) == SumFrom(items, 1, 0)

\* OrderItemIn: qty is conint(ge=1).
ValidOrderCreateIn(body) == \A i \in DOMAIN body.items : body.items[i].qty >= 1

\* A flush that made the order visible to other sessions before the commit.
create_order_Visible(dbv, body) ==
    LET order == OrderRow(NextId(dbv, "orders"), body.contact_id, "new",
                          calc_total(body.items), body.currency)
        flushed == [dbv EXCEPT !.seq = Bump(dbv, "orders")]
    IN IF ContactsById(dbv, body.contact_id) = {}
       THEN Raise(flushed)
       ELSE Suspend([flushed EXCEPT !.orders = @ \cup {order}], "order_commit",
                    Some(order))

create_order(dbv, body) ==
    LET order == OrderRow(NextId(dbv, "orders"), body.contact_id, "new",
                          calc_total(body.items), body.currency)
        flushed == [dbv EXCEPT !.seq = Bump(dbv, "orders")]
    IN IF ContactsById(dbv, body.contact_id) = {}
       THEN Raise(flushed)
       ELSE Suspend(flushed, "order_commit", Some(order))

OrderItems(dbv, order, items) ==
    {OrderItemRow(dbv.seq["order_items"] + i, order.id, items[i].product_id,
                  items[i].variant_id, items[i].qty, Numeric2(items[i].price)) :
        i \in DOMAIN items}

order_commit(dbv, order, body, envv) ==
    LET rows == OrderItems(dbv, order, body.items)
        stored == [order EXCEPT !.total = Numeric2(order.total)]
        consumed == [dbv EXCEPT !.seq = [@ EXCEPT !["order_items"] = @ + Len(body.items)]]
    IN IF \E it \in rows : it.product_id \notin envv.products
                              \/ it.variant_id \notin envv.variants
       THEN Raise(consumed)
       ELSE Reply([consumed EXCEPT !.orders = @ \cup {stored},
                                   !.order_items = @ \cup rows],
                  200,
                  << <<"id", JsonInt(stored.id)>>, <<"status", Some(stored.status)>>,
                     <<"total", DecimalStr(stored.total)>>,
                     <<"currency", Some(stored.currency)>> >>)

(***************************************************************************)
(* POST /payments: the order is loaded, then the payment is inserted and,  *)
(* for status "paid", the loaded order is set to "paid", in one commit.    *)
(***************************************************************************)
OrdersById(dbv, order_id) == {o \in dbv.orders : o.id = order_id}

create_payment(dbv, body) ==
    IF OrdersById(dbv, body.order_id) = {} THEN Reply(dbv, 404, Detail("Order not found"))
    ELSE Suspend(dbv, "payment_commit",
                 Some(CHOOSE o \in OrdersById(dbv, body.order_id) : TRUE))

\* A payment that marked the order paid whatever its status.
MarksPaid_Always(status) == TRUE

MarksPaid(status) == status = "paid"

payment_commit(dbv, o, body) ==
    LET p == PaymentRow(NextId(dbv, "payments"), body.order_id, body.status,
                        Numeric2(body.amount), body.currency, body.provider)
        update == MarksPaid(body.status)
    IN Reply([dbv EXCEPT !.payments = @ \cup {p},
                         !.seq = Bump(dbv, "payments"),
                         !.orders = IF update
                                    THEN {IF x.id = o.id THEN [x EXCEPT !.status = "paid"]
                                          ELSE x : x \in @}
                                    ELSE @],
             200,
             << <<"id", JsonInt(p.id)>>, <<"order_id", JsonInt(p.order_id)>>,
                <<"status", Some(p.status)>>, <<"amount", DecimalStr(p.amount)>>,
                <<"currency", Some(p.currency)>>, <<"provider", p.provider>>,
                <<"tx_id", p.tx_id>>, <<"fee", Null>> >>)

(***************************************************************************)
(* GET and PUT /orders/{id}, PUT /payments/{id}.  The update bodies hold   *)
(* every field, None when not supplied; a field is applied when it is      *)
(* truthy (status, currency, tx_id) or not None (total, fee).              *)
(***************************************************************************)
Truthy(v) == v # Null /\ v # Some("")

OrderJson(o) ==
    << <<"id", JsonInt(o.id)>>, <<"status", Some(o.status)>>,
       <<"total", DecimalStr(o.total)>>, <<"currency", Some(o.currency)>> >>

get_order(dbv, order_id) ==
    IF OrdersById(dbv, order_id) = {} THEN Reply(dbv, 404, Detail("Order not found"))
    ELSE LET o == CHOOSE o \in OrdersById(dbv, order_id) : TRUE
             items == NewestFirst({it \in dbv.order_items : it.order_id = order_id})
         IN Reply(dbv, 200, OrderJson(o) \o
                  << <<"items", Some([i \in DOMAIN items |-> items[i].id])>> >>)

update_order(dbv, order_id, body) ==
    IF OrdersById(dbv, order_id) = {} THEN Reply(dbv, 404, Detail("Order not found"))
    ELSE LET o == CHOOSE o \in OrdersById(dbv, order_id) : TRUE
             new == [o EXCEPT
                        !.status = IF Truthy(body.status) THEN Val(body.status) ELSE @,
                        !.total = IF body.total # Null THEN Numeric2(Val(body.total)) ELSE @,
                        !.currency = IF Truthy(body.currency) THEN Val(body.currency) ELSE @]
         IN Reply([dbv EXCEPT !.orders = (@ \ {o}) \cup {new}], 200, OrderJson(new))

PaymentsById(dbv, payment_id) == {x \in dbv.payments : x.id = payment_id}

update_payment(dbv, payment_id, body) ==
    IF PaymentsById(dbv, payment_id) = {}
    THEN Reply(dbv, 404, Detail("Payment not found"))
    ELSE LET x == CHOOSE x \in PaymentsById(dbv, payment_id) : TRUE
             new == [x EXCEPT
                        !.status = IF Truthy(body.status) THEN Val(body.status) ELSE @,
                        !.tx_id = IF Truthy(body.tx_id) THEN body.tx_id ELSE @,
                        !.fee = IF body.fee # Null THEN Some(Numeric2(Val(body.fee))) ELSE @]
         IN Reply([dbv EXCEPT !.payments = (@ \ {x}) \cup {new}], 200,
                  << <<"id", JsonInt(new.id)>>, <<"status", Some(new.status)>>,
                     <<"tx_id", new.tx_id>>,
                     <<"fee", IF new.fee = Null THEN Null ELSE DecimalStr(Val(new.fee))>> >>)

(***************************************************************************)
(* The application below the middleware: routing, then the dependencies    *)
(* (bearer credentials, current user, role), then body validation, then    *)
(* the route function.                                                     *)
(***************************************************************************)
ValidationError == Detail("Unprocessable Entity")

App(dbv, method, path, creds, body, envv, query) ==
    LET route == Route(method, path)
        auth == require_role(AllowedRoles(route), creds, dbv.users, envv)
    IN
    IF RouterOf(route) \notin envv.routers THEN Abort(dbv, 404, Detail("Not Found"))
    ELSE IF route = "login"
    THEN IF ValidLoginIn(body) THEN login(dbv, body, envv.now)
         ELSE Abort(dbv, 422, ValidationError)
    ELSE IF auth.status # 200 THEN Abort(dbv, auth.status, Detail(auth.detail))
    ELSE CASE route = "create_contact" ->
                IF ValidContactIn(body) THEN create_contact(dbv, body)
                ELSE Abort(dbv, 422, ValidationError)
           [] route = "list_contacts" ->
                IF ValidListQuery(query) THEN list_contacts(dbv, query)
                ELSE Abort(dbv, 422, ValidationError)
           [] route = "get_contact" -> get_contact(dbv, ParseInt(path[2]))
           [] route = "update_contact" ->
                IF ValidContactIn(body) THEN update_contact(dbv, ParseInt(path[2]), body)
                ELSE Abort(dbv, 422, ValidationError)
           [] route = "delete_contact" -> delete_contact(dbv, ParseInt(path[2]))
           [] route = "register" ->
                IF ~ValidRegisterIn(body) THEN Abort(dbv, 422, ValidationError)
                ELSE IF EmailTaken(dbv.users, Val(JsonGet(body, "email")))
                THEN Reply(dbv, 400, Detail("Email already exists"))
                ELSE Suspend(dbv, "register_commit", Null)
           [] route = "create_order" ->
                IF ValidOrderCreateIn(body) THEN create_order(dbv, body)
                ELSE Abort(dbv, 422, ValidationError)
           [] route = "create_payment" -> create_payment(dbv, body)
           [] route = "get_order" -> get_order(dbv, ParseInt(path[2]))
           [] route = "update_order" -> update_order(dbv, ParseInt(path[2]), body)
           [] route = "update_payment" -> update_payment(dbv, ParseInt(path[2]), body)

(***************************************************************************)
(* IdempotencyMiddleware.dispatch.                                         *)
(***************************************************************************)
\* A middleware that looked only at the header.
Bypass_HeaderOnly(method, idem_key) == idem_key = Null \/ idem_key = Some("")

\* Lines 22-27: other methods, and requests without the header (or with an
\* empty one), pass through.
Bypass(method, idem_key) ==
    method \notin {"POST", "PUT", "PATCH"} \/ idem_key = Null \/ idem_key = Some("")

\* Lines 35-42: the rows the query filters on key, method and path.
Lookup(idem, idem_key, method, path) ==
    {r \in idem : r.key = idem_key /\ r.method = method /\ r.path = path}

\* .first() without ORDER BY: any one of the matching rows, or None.
First(rows) == IF rows = {} THEN {Null} ELSE {Some(r) : r \in rows}

\* A replay test that ignored the body hash, and one that inverted it.
ReplayMatch_TripleOnly(rec, body_hash) == rec # Null
ReplayMatch_Inverted(rec, body_hash) == rec # Null /\ Val(rec).body_hash # body_hash

\* Line 44.
ReplayMatch(rec, body_hash) == rec # Null /\ Val(rec).body_hash = body_hash

\* Lines 46-49: "x or default" takes the default for None, 0 and {}.
\* A replay that answers with the default status, whatever was stored.
Replay_Always200(rec) ==
    JSONResponse(IF rec.response_body = Null THEN EmptyObject ELSE Val(rec.response_body),
                 200)

Replay(rec) ==
    JSONResponse(IF rec.response_body = Null THEN EmptyObject ELSE Val(rec.response_body),
                 IF rec.response_status = Null \/ rec.response_status = Some(0)
                 THEN 200 ELSE Val(rec.response_status))

\* Lines 55-58: reading response.body of a response without that attribute
\* raises, and the except clause stores None.
CaptureContent(response) ==
    IF "body" \in DOMAIN response THEN Some(response.body) ELSE Null

\* An idempotency_keys table with a unique index on (key, method, path).
IdemUniqueViolation_Triple(idem, row) ==
    \E x \in idem : x.key = row.key /\ x.method = row.method /\ x.path = row.path

\* The indexes of idempotency_keys are all created with unique=False: no
\* INSERT is refused for repeating a key, method and path.
IdemUniqueViolation(idem, row) == FALSE

\* The column key is String(128): the INSERT of a longer key is refused
\* (value too long), like that of a row violating a unique index.
KeyMaxLen == 128
InsertRefused(idem, row) == IdemUniqueViolation(idem, row) \/ Len(row.key) > KeyMaxLen

\* Lines 60-67.
NewRecord(id, r, response) ==
    IdempotencyKey(id, Val(r.key), r.method, r.path, r.body_hash,
                   Some(response.status_code), CaptureContent(response))

(***************************************************************************)
(* Requests.  The fields after "response" are history: whether call_next   *)
(* was called, whether the route function was entered, how many entity     *)
(* rows and idempotency rows the request wrote, and what the idempotency   *)
(* table held for the request's key when the middleware looked it up.      *)
(***************************************************************************)
IdleReq ==
    [pc |-> "idle", id |-> 0, method |-> "", path |-> <<>>, key |-> Null,
     body |-> <<>>, creds |-> Null, body_hash |-> Null, keyed |-> FALSE,
     rec |-> Null, response |-> Null,
     invoked |-> FALSE, ran |-> FALSE, raised |-> FALSE, wrote |-> FALSE, stored |-> Null,
     seenSame |-> FALSE, seenOther |-> FALSE, emailExisted |-> FALSE,
     subjectRole |-> Null, tx |-> Null, query |-> DefaultQuery, handled |-> Null,
     sessions |-> {}, peak |-> 0]

\* History: the stored role of the user a request's token names, when the
\* token verifies and such a user is stored.
StoredRole(creds, usersTbl, now) ==
    IF creds = Null THEN Null
    ELSE IF ~Val(creds).sig_ok \/ Val(creds).exp <= now THEN Null
    ELSE LET named == {u \in usersTbl : ToString(u.id) = Val(creds).sub} IN
         IF named = {} THEN Null ELSE Some((CHOOSE u \in named : TRUE).role)

\* History: a register request's e-mail is stored already.
EmailStored(in, usersTbl) ==
    /\ in.method = "POST" /\ in.path = <<"auth", "register">>
    /\ "email" \in JsonKeys(in.body)
    /\ \E u \in usersTbl : Some(u.email) = JsonGet(in.body, "email")

Arrive(in, id, dbv, now) ==
    [IdleReq EXCEPT !.id = id, !.method = in.method, !.path = in.path, !.key = in.key,
                    !.body = in.body, !.creds = in.creds, !.query = in.query,
                    !.subjectRole = StoredRole(in.creds, dbv.users, now),
                    !.emailExisted = EmailStored(in, dbv.users)]

\* The rows of the entity tables (every table but idempotency_keys).
EntityTables(dbv) ==
    <<dbv.users, dbv.contacts, dbv.orders, dbv.order_items, dbv.payments,
      dbv.interactions, dbv.tasks, dbv.customer_stats>>

\* The session the dependency get_db opens for a routed request and closes
\* when the request is answered; the middleware's own session (line 33) is
\* open from the lookup until dispatch returns or raises (lines 71-72).
GetDb(method, path, envv) ==
    IF RouterOf(Route(method, path)) \in envv.routers THEN {"handler"} ELSE {}

\* The request after the application has answered it with `result`, having
\* found the tables as `dbv`.
Answered(r, result, dbv) ==
    [r EXCEPT !.pc = IF r.keyed /\ ~result.raised THEN "store" ELSE "done",
              !.response = Some(StreamingResponse(result.json, result.status)),
              !.handled = Some(StreamingResponse(result.json, result.status)),
              !.ran = result.ran, !.raised = result.raised,
              !.sessions = IF r.keyed /\ ~result.raised THEN {"middleware"} ELSE {},
              !.wrote = @ \/ EntityTables(result.db) # EntityTables(dbv)]

Dispatch(s, inputs, bound) ==
    /\ req[s].pc \in {"idle", "done"}
    /\ nreq < bound
    /\ \E in \in inputs :
         LET r == Arrive(in, nreq + 1, db, env.now) IN
         IF Bypass(in.method, in.key)
         THEN req' = [req EXCEPT ![s] = [r EXCEPT !.pc = "call_next"]]
         ELSE LET body_hash == BodyHash(in.body)
                  rows == Lookup(db.idempotency_keys, Val(in.key), in.method, in.path)
                  seen == [r EXCEPT !.keyed = TRUE, !.body_hash = body_hash,
                             !.sessions = {"middleware"}, !.peak = 1,
                             !.seenSame = \E x \in rows : x.body_hash = body_hash,
                             !.seenOther = \E x \in rows : x.body_hash # body_hash]
              IN \E rec \in First(rows) :
                    req' = [req EXCEPT ![s] =
                              IF ReplayMatch(rec, body_hash)
                              THEN [seen EXCEPT !.pc = "done", !.rec = rec,
                                                !.sessions = {},
                                                !.response = Some(Replay(Val(rec)))]
                              ELSE [seen EXCEPT !.pc = "call_next", !.rec = rec]]
    /\ nreq' = nreq + 1
    /\ UNCHANGED <<db, env, handlerOut>>

CallNext(s) ==
    /\ req[s].pc = "call_next"
    /\ LET r == req[s]
           result == App(db, r.method, r.path, r.creds, r.body, env, r.query)
           held == r.sessions \cup GetDb(r.method, r.path, env)
           called == [r EXCEPT !.invoked = TRUE, !.sessions = held,
                               !.peak = IF Cardinality(held) > @ THEN Cardinality(held)
                                        ELSE @,
                               !.subjectRole = StoredRole(r.creds, db.users, env.now)]
       IN IF result.pending # ""
          THEN /\ req' = [req EXCEPT ![s] = [called EXCEPT !.pc = result.pending,
                                                           !.ran = TRUE,
                                                           !.tx = result.tx]]
               /\ db' = result.db
          ELSE /\ req' = [req EXCEPT ![s] = Answered(called, result, db)]
               /\ db' = result.db
    /\ UNCHANGED <<nreq, env, handlerOut>>

RegisterCommit(s) ==
    /\ req[s].pc = "register_commit"
    /\ LET result == register_commit(db, req[s].body) IN
         /\ req' = [req EXCEPT ![s] = Answered(req[s], result, db)]
         /\ db' = result.db
    /\ UNCHANGED <<nreq, env, handlerOut>>

OrderCommit(s) ==
    /\ req[s].pc = "order_commit"
    /\ LET result == order_commit(db, Val(req[s].tx), req[s].body, env) IN
         /\ req' = [req EXCEPT ![s] = Answered(req[s], result, db)]
         /\ db' = result.db
    /\ UNCHANGED <<nreq, env, handlerOut>>

PaymentCommit(s) ==
    /\ req[s].pc = "payment_commit"
    /\ LET result == payment_commit(db, Val(req[s].tx), req[s].body) IN
         /\ req' = [req EXCEPT ![s] = Answered(req[s], result, db)]
         /\ db' = result.db
    /\ UNCHANGED <<nreq, env, handlerOut>>

\* A second passes.
Tick ==
    /\ env.now < MaxTime
    /\ env' = [env EXCEPT !.now = @ + 1]
    /\ UNCHANGED <<db, req, nreq, handlerOut>>

\* Lines 54-70: capture, insert, commit, return the handler's response.
StoreRecord(s) ==
    /\ req[s].pc = "store"
    /\ LET r == req[s]
           new_rec == NewRecord(NextId(db, "idempotency_keys"), r, Val(r.response))
       IN IF InsertRefused(db.idempotency_keys, new_rec)
          THEN \* the commit raises out of dispatch: the client gets a 500
               /\ db' = [db EXCEPT !.seq = Bump(db, "idempotency_keys")]
               /\ req' = [req EXCEPT ![s] =
                            [r EXCEPT !.pc = "done", !.raised = TRUE, !.sessions = {},
                                      !.response = Some(StreamingResponse(
                                          Detail("Internal Server Error"), 500))]]
               /\ handlerOut' = handlerOut
          ELSE /\ db' = [db EXCEPT !.idempotency_keys = @ \cup {new_rec},
                                   !.seq = Bump(db, "idempotency_keys")]
               /\ req' = [req EXCEPT ![s] =
                            [r EXCEPT !.pc = "done", !.stored = Some(new_rec.id),
                                      !.sessions = {}]]
               /\ handlerOut' = handlerOut \cup
                      {[id |-> new_rec.id, status |-> Val(r.response).status_code,
                        body |-> ClientBody(Val(r.response))]}
    /\ UNCHANGED <<nreq, env>>

(***************************************************************************)
(* Initial tables: an owner and an agent are registered, nothing else is   *)
(* stored.  The deployment fixes what HTTPBearer answers to a request      *)
(* without credentials (401 or 403, by the framework's version).           *)
(***************************************************************************)
OwnerUser == UserRow(1, "owner@x", hash_password("pw"), "owner")
AgentUser == UserRow(2, "agent@x", hash_password("pw"), "agent")

EmptyDb ==
    [users |-> {OwnerUser, AgentUser}, contacts |-> {}, idempotency_keys |-> {},
     orders |-> {}, order_items |-> {}, payments |-> {},
     interactions |-> {}, tasks |-> {}, customer_stats |-> {},
     seq |-> [users |-> 2, contacts |-> 0, idempotency_keys |-> 0,
              orders |-> 0, order_items |-> 0, payments |-> 0]]

\* A token of user `sub`, issued at time 0 or, if expired, long enough before.
Token(sub, sig_ok, expired) ==
    [sub |-> ToString(sub), email |-> "", role |-> "",
     iat |-> IF expired THEN 0 - JWT_EXPIRES ELSE 0,
     exp |-> IF expired THEN 0 ELSE JWT_EXPIRES, sig_ok |-> sig_ok]
OwnerCreds == Some(Token(1, TRUE, FALSE))
AgentCreds == Some(Token(2, TRUE, FALSE))

BodyAlice == << <<"name", Some("Alice")>> >>
BodyPhone == << <<"phone", Some("+1555")>> >>

Request(method, path, key, body, creds) ==
    [method |-> method, path |-> path, key |-> key, body |-> body, creds |-> creds,
     query |-> DefaultQuery]
\* The request with ?limit=...&offset=...
WithQuery(request, limit, offset) ==
    [request EXCEPT !.query = [limit |-> limit, offset |-> offset]]

(***************************************************************************)
(* Spec: clients retry keyed and unkeyed contact writes, concurrently.     *)
(***************************************************************************)
IdemInputs ==
    {Request("POST", <<"contacts">>, k, b, OwnerCreds) :
        k \in {Null, Some("k1")}, b \in {BodyAlice, BodyPhone}}
    \cup {Request("PUT", <<"contacts", "1">>, Some("k1"), b, c) :
            b \in {BodyAlice, BodyPhone}, c \in {OwnerCreds, AgentCreds}}

Init ==
    /\ db = EmptyDb
    /\ req = [s \in Slots |-> IdleReq]
    /\ nreq = 0
    /\ env \in {[missingStatus |-> m, routers |-> ActiveRouters, now |-> 0, products |-> {},
                 variants |-> {}] : m \in {401, 403}}
    /\ handlerOut = {}

Next ==
    \E s \in Slots :
        \/ Dispatch(s, IdemInputs, MaxRequests)
        \/ CallNext(s)
        \/ StoreRecord(s)

Spec == Init /\ [][Next]_vars

(***************************************************************************)
(* SpecAuth: every kind of caller on every included route, with and        *)
(* without an idempotency key.  A manager and one contact are stored; user *)
(* 4 exists only once an owner has registered it.                          *)
(***************************************************************************)
ManagerUser == UserRow(3, "manager@x", hash_password("pw"), "manager")
ManagerCreds == Some(Token(3, TRUE, FALSE))
NewUserCreds == Some(Token(4, TRUE, FALSE))
ForgedCreds == Some(Token(1, FALSE, FALSE))
ExpiredCreds == Some(Token(1, TRUE, TRUE))

RegisterBody(email, role) ==
    << <<"email", Some(email)>>, <<"password", Some("pw")>>, <<"role", Some(role)>> >>

AuthDb ==
    [EmptyDb EXCEPT !.users = {OwnerUser, AgentUser, ManagerUser},
                    !.contacts = {ContactRow(1, Some("Alice"), Null, Null, Null)},
                    !.seq = [@ EXCEPT !.users = 3, !.contacts = 1]]

AuthCreds ==
    {Null, OwnerCreds, AgentCreds, ManagerCreds, NewUserCreds, ForgedCreds, ExpiredCreds}

AuthInputs ==
    {Request("POST", <<"contacts">>, k, BodyAlice, c) :
        k \in {Null, Some("k1")}, c \in AuthCreds}
    \cup {Request("PUT", <<"contacts", "1">>, Some("k1"), BodyPhone, c) : c \in AuthCreds}
    \cup {Request("POST", <<"auth", "register">>, Null, RegisterBody("new@x", "guest"), c) :
            c \in AuthCreds}
    \cup {Request("GET", <<"contacts">>, Null, <<>>, c) : c \in AuthCreds}
    \cup {Request("DELETE", <<"contacts", "1">>, Null, <<>>, c) : c \in AuthCreds}

InitAuth ==
    /\ db = AuthDb
    /\ req = [s \in Slots |-> IdleReq]
    /\ nreq = 0
    /\ env \in {[missingStatus |-> m, routers |-> ActiveRouters, now |-> 0, products |-> {},
                 variants |-> {}] : m \in {401, 403}}
    /\ handlerOut = {}

NextAuth ==
    \E s \in Slots :
        \/ Dispatch(s, AuthInputs, MaxAuthRequests)
        \/ CallNext(s)
        \/ RegisterCommit(s)
        \/ StoreRecord(s)

SpecAuth == InitAuth /\ [][NextAuth]_vars

(***************************************************************************)
(* SpecRegister: owners and agents register users concurrently.            *)
(***************************************************************************)
RegisterInputs ==
    {Request("POST", <<"auth", "register">>, k, RegisterBody(e, "agent"), c) :
        k \in {Null, Some("k1")}, e \in {"new@x", "owner@x"},
        c \in {OwnerCreds, AgentCreds}}

NextRegister ==
    \E s \in Slots :
        \/ Dispatch(s, RegisterInputs, MaxRequests)
        \/ CallNext(s)
        \/ RegisterCommit(s)
        \/ StoreRecord(s)

SpecRegister == Init /\ [][NextRegister]_vars

(***************************************************************************)
(* Orders and payments, on an application that includes their routers: one *)
(* contact, one product with one variant, owner and agent as callers.      *)
(***************************************************************************)
Item(product_id, qty, price) ==
    [product_id |-> product_id, variant_id |-> 1, qty |-> qty, price |-> price,
     currency |-> "USD"]
\* [{price: "10.00", qty: 2}, {price: "5.50", qty: 1}]
ItemsTwo == <<Item(1, 2, 10000), Item(1, 1, 5500)>>
\* [{price: "0.005", qty: 1}] and [{price: "-0.005", qty: 1}]
ItemsFine == <<Item(1, 1, 5)>>
ItemsNegative == <<Item(1, 1, 0 - 5)>>
ItemsUnknownProduct == <<Item(1, 1, 10000), Item(7, 1, 5500)>>
ItemsZeroQty == <<Item(1, 0, 10000)>>

OrderBody(contact_id, items) ==
    [contact_id |-> contact_id, currency |-> "USD", items |-> items]
PaymentBody(order_id, status) ==
    [order_id |-> order_id, amount |-> 25500, currency |-> "USD", provider |-> Null,
     status |-> status]

OrdersDb == [EmptyDb EXCEPT !.contacts = {ContactRow(1, Some("Alice"), Null, Null, Null)},
                            !.seq = [@ EXCEPT !["contacts"] = 1]]

OrderInputs ==
    {Request("POST", <<"orders">>, Null, OrderBody(1, items), OwnerCreds) :
        items \in {ItemsTwo, ItemsFine, ItemsNegative, ItemsUnknownProduct,
                   ItemsZeroQty, <<>>}}
    \cup {Request("POST", <<"orders">>, Null, OrderBody(9, ItemsTwo), OwnerCreds)}
    \cup {Request("POST", <<"payments">>, Null, PaymentBody(1, st), AgentCreds) :
            st \in {"paid", "pending"}}
    \cup {Request("POST", <<"payments">>, Null, PaymentBody(2, "paid"), AgentCreds)}

InitOrders ==
    /\ db = OrdersDb
    /\ req = [s \in Slots |-> IdleReq]
    /\ nreq = 0
    /\ env \in {[missingStatus |-> m, routers |-> AllRouters, now |-> 0, products |-> {1},
                 variants |-> {1}] : m \in {401, 403}}
    /\ handlerOut = {}

NextOrders ==
    \/ \E s \in Slots : Dispatch(s, OrderInputs, MaxRequests)
    \/ \E s \in Slots : CallNext(s)
    \/ \E s \in Slots : OrderCommit(s)
    \/ \E s \in Slots : PaymentCommit(s)

SpecOrders == InitOrders /\ [][NextOrders]_vars

(***************************************************************************)
(* Contacts, on the active application: contact 1 is referenced by an      *)
(* order, an interaction and a task, contact 2 by nothing.                 *)
(***************************************************************************)
InteractionRow(id, contact_id) == [id |-> id, contact_id |-> contact_id]
TaskRow(id, contact_id) == [id |-> id, contact_id |-> contact_id]

BodyPhoneNull == << <<"phone", Null>> >>
BodyNameEmailNull == << <<"name", Some("Bobby")>>, <<"email", Null>> >>

ContactsDb ==
    [EmptyDb EXCEPT
        !.contacts = {ContactRow(1, Some("Alice"), Some("alice@example.com"), Null, Null),
                      ContactRow(2, Some("Bob"), Some("bob@example.com"), Some("+1000"),
                                 Null)},
        !.orders = {OrderRow(1, 1, "new", 25500, "USD")},
        !.interactions = {InteractionRow(1, 1)},
        !.tasks = {TaskRow(1, 1)},
        !.seq = [@ EXCEPT !["contacts"] = 2, !["orders"] = 1]]

ContactInputs ==
    {Request("PUT", <<"contacts", id>>, Null, b, OwnerCreds) :
        id \in {"2", "9"}, b \in {BodyPhone, BodyPhoneNull, BodyNameEmailNull}}
    \cup {Request(m, <<"contacts", id>>, Null, <<>>, OwnerCreds) :
            m \in {"GET", "DELETE"}, id \in {"1", "2", "9"}}
    \cup {Request("POST", <<"contacts">>, Null, BodyAlice, AgentCreds)}
    \cup {WithQuery(Request("GET", <<"contacts">>, Null, <<>>, AgentCreds), limit, offset) :
            limit \in {1, LimitMax, 500}, offset \in {0, 1}}

InitContacts ==
    /\ db = ContactsDb
    /\ req = [s \in Slots |-> IdleReq]
    /\ nreq = 0
    /\ env \in {[missingStatus |-> m, routers |-> ActiveRouters, now |-> 0, products |-> {},
                 variants |-> {}] : m \in {401, 403}}
    /\ handlerOut = {}

NextContacts ==
    \/ \E s \in Slots : Dispatch(s, ContactInputs, MaxRequests)
    \/ \E s \in Slots : CallNext(s)

SpecContacts == InitContacts /\ [][NextContacts]_vars

(***************************************************************************)
(* Tokens: clients log in and later present the tokens they were issued,   *)
(* while time passes.                                                      *)
(***************************************************************************)
LoginBody(email, password) ==
    << <<"email", Some(email)>>, <<"password", Some(password)>> >>

\* The credentials clients hold: the tokens of the logins answered so far.
IssuedCreds ==
    {JsonGet(Val(req[s].response).body_iterator, "access_token") :
        s \in {x \in Slots : /\ req[x].pc = "done"
                              /\ Route(req[x].method, req[x].path) = "login"
                              /\ Val(req[x].response).status_code = 200}}

TokenInputs ==
    {Request("POST", <<"auth", "login">>, Null, LoginBody(e, pw), Null) :
        e \in {"owner@x", "nobody@x"}, pw \in {"pw", "bad"}}
    \cup {Request("GET", <<"contacts">>, Null, <<>>, c) : c \in IssuedCreds}

NextToken ==
    \/ \E s \in Slots : Dispatch(s, TokenInputs, MaxRequests)
    \/ \E s \in Slots : CallNext(s)
    \/ Tick

SpecToken == Init /\ [][NextToken]_vars

(***************************************************************************)
(* Bypass: the Idempotency-Key header on methods the middleware ignores,   *)
(* beside keyed and unkeyed writes.                                        *)
(***************************************************************************)
BypassInputs ==
    {Request("POST", <<"contacts">>, k, BodyAlice, OwnerCreds) :
        k \in {Null, Some(""), Some("k1")}}
    \cup {Request("GET", <<"contacts">>, k, <<>>, OwnerCreds) : k \in {Null, Some("k1")}}
    \cup {Request("GET", <<"contacts", "1">>, Some("k1"), <<>>, AgentCreds)}
    \cup {Request("DELETE", <<"contacts", "1">>, Some("k1"), <<>>, OwnerCreds)}

NextBypass ==
    \/ \E s \in Slots : Dispatch(s, BypassInputs, MaxRequests)
    \/ \E s \in Slots : CallNext(s)
    \/ \E s \in Slots : StoreRecord(s)

SpecBypass == Init /\ [][NextBypass]_vars

(***************************************************************************)
(* References to stored and to absent entities, on an application that     *)
(* includes the four routers: contact 1, order 1 and payment 1 are stored, *)
(* nothing has the id 9.                                                   *)
(***************************************************************************)
OrderUpdate(status) == [status |-> status, total |-> Null, currency |-> Null]
PaymentUpdate(status) == [status |-> status, tx_id |-> Some("tx-1"), fee |-> Some(1505)]

ReferenceDb ==
    [OrdersDb EXCEPT
        !.orders = {OrderRow(1, 1, "new", 25500, "USD")},
        !.payments = {PaymentRow(1, 1, "pending", 25500, "USD", Null)},
        !.seq = [@ EXCEPT !["orders"] = 1, !["payments"] = 1]]

\* A request without a body.
NoBody == [content_length |-> 0]

ReferenceInputs ==
    {Request(m, <<"contacts", id>>, Null, NoBody, OwnerCreds) :
        m \in {"GET", "DELETE"}, id \in {"1", "9"}}
    \cup {Request("GET", <<"orders", id>>, Null, NoBody, AgentCreds) : id \in {"1", "9"}}
    \cup {Request("PUT", <<"orders", id>>, Null, OrderUpdate(Some("waiting")), OwnerCreds) :
            id \in {"1", "9"}}
    \cup {Request("PUT", <<"payments", id>>, Null, PaymentUpdate(Some("paid")), OwnerCreds) :
            id \in {"1", "9"}}
    \cup {Request("POST", <<"payments">>, Null, PaymentBody(id, "paid"), AgentCreds) :
            id \in {1, 9}}
    \cup {Request("POST", <<"orders">>, Null, OrderBody(id, ItemsTwo), AgentCreds) :
            id \in {1, 9}}

InitReference ==
    /\ db = ReferenceDb
    /\ req = [s \in Slots |-> IdleReq]
    /\ nreq = 0
    /\ env \in {[missingStatus |-> m, routers |-> AllRouters, now |-> 0, products |-> {1},
                 variants |-> {1}] : m \in {401, 403}}
    /\ handlerOut = {}

NextReference ==
    \/ \E s \in Slots : Dispatch(s, ReferenceInputs, MaxRequests)
    \/ \E s \in Slots : CallNext(s)
    \/ \E s \in Slots : OrderCommit(s)
    \/ \E s \in Slots : PaymentCommit(s)

SpecReference == InitReference /\ [][NextReference]_vars

(***************************************************************************)
(* Record persistence: keyed writes whose key the column can hold, and     *)
(* whose key it cannot.                                                    *)
(***************************************************************************)
\* A key of 129 characters.
LongKey ==
    "kkkkkkkkkkkkkkkkkkkkkkkkkkkkkkkkkkkkkkkkkkkkkkkkkkkkkkkkkkkkkkkkkkkkkkkkkkkkkkkkkkkkkkkkkkkkkkkkkkkkkkkkkkkkkkkkkkkkkkkkkkkkkkkkk"

PersistInputs ==
    {Request("POST", <<"contacts">>, Some(k), b, OwnerCreds) :
        k \in {"k1", LongKey}, b \in {BodyAlice, BodyPhone}}

NextPersist ==
    \/ \E s \in Slots : Dispatch(s, PersistInputs, MaxRequests)
    \/ \E s \in Slots : CallNext(s)
    \/ \E s \in Slots : StoreRecord(s)

SpecPersist == Init /\ [][NextPersist]_vars

(***************************************************************************)
(* Migrations.  The schema is the set of tables, the set of indexes (name  *)
(* and table) and the set of foreign keys (from table, to table).  A       *)
(* migration runs its operations one after the other inside a transaction: *)
(* an operation the database refuses rolls the whole migration back.       *)
(***************************************************************************)
CreateTable(name, fks) == [op |-> "create_table", name |-> name, table |-> name, fks |-> fks]
CreateIndex(name, table) == [op |-> "create_index", name |-> name, table |-> table, fks |-> {}]
DropIndex(name, table) == [op |-> "drop_index", name |-> name, table |-> table, fks |-> {}]
DropTable(name) == [op |-> "drop_table", name |-> name, table |-> name, fks |-> {}]

upgrade_0001 ==
    <<CreateTable("contacts", {}),
      CreateIndex("ix_contacts_phone", "contacts"),
      CreateIndex("ix_contacts_email", "contacts"),
      CreateIndex("ix_contacts_created_at", "contacts"),
      CreateTable("products", {}),
      CreateIndex("ix_products_sku", "products"),
      CreateIndex("ix_products_title", "products"),
      CreateIndex("ix_products_created_at", "products"),
      CreateTable("variants", {"products"}),
      CreateIndex("ix_variants_product_id", "variants"),
      CreateIndex("ix_variants_created_at", "variants"),
      CreateTable("orders", {"contacts"}),
      CreateIndex("ix_orders_contact_id", "orders"),
      CreateIndex("ix_orders_status", "orders"),
      CreateIndex("ix_orders_created_at", "orders"),
      CreateIndex("ix_orders_contact_status_created", "orders"),
      CreateTable("order_items", {"orders", "products", "variants"}),
      CreateIndex("ix_order_items_order_id", "order_items"),
      CreateIndex("ix_order_items_created_at", "order_items"),
      CreateTable("interactions", {"contacts"}),
      CreateIndex("ix_interactions_contact_id", "interactions"),
      CreateIndex("ix_interactions_external_event_id", "interactions"),
      CreateIndex("ix_interactions_created_at", "interactions"),
      CreateIndex("ix_interactions_contact_created", "interactions"),
      CreateTable("payments", {"orders"}),
      CreateIndex("ix_payments_order_id", "payments"),
      CreateIndex("ix_payments_status", "payments"),
      CreateIndex("ix_payments_tx_id", "payments"),
      CreateIndex("ix_payments_created_at", "payments"),
      CreateIndex("ix_payments_status_created", "payments"),
      CreateTable("tasks", {"contacts"}),
      CreateIndex("ix_tasks_contact_id", "tasks"),
      CreateIndex("ix_tasks_status", "tasks"),
      CreateIndex("ix_tasks_due_at", "tasks"),
      CreateIndex("ix_tasks_created_at", "tasks"),
      CreateTable("customer_stats", {"contacts"}),
      CreateIndex("ix_customer_stats_orders_count", "customer_stats"),
      CreateIndex("ix_customer_stats_last_order_at", "customer_stats"),
      CreateTable("event_log", {}),
      CreateIndex("ix_event_log_event_type", "event_log"),
      CreateIndex("ix_event_log_created_at", "event_log")>>

downgrade_0001 ==
    <<DropTable("event_log"),
      DropTable("customer_stats"),
      DropTable("tasks"),
      DropTable("payments"),
      DropTable("interactions"),
      DropTable("order_items"),
      DropTable("orders"),
      DropTable("variants"),
      DropTable("products"),
      DropTable("contacts")>>

upgrade_0002 ==
    <<CreateTable("users", {}),
      CreateIndex("ix_users_email", "users"),
      CreateIndex("ix_users_role", "users"),
      CreateIndex("ix_users_created_at", "users"),
      CreateTable("idempotency_keys", {}),
      CreateIndex("ix_idempotency_keys_key", "idempotency_keys"),
      CreateIndex("ix_idempotency_keys_method", "idempotency_keys"),
      CreateIndex("ix_idempotency_keys_path", "idempotency_keys"),
      CreateIndex("ix_idem_key_method_path", "idempotency_keys"),
      CreateIndex("ix_idempotency_keys_created_at", "idempotency_keys")>>

downgrade_0002 ==
    <<DropIndex("ix_idempotency_keys_created_at", "idempotency_keys"),
      DropIndex("ix_idem_key_method_path", "idempotency_keys"),
      DropIndex("ix_idempotency_keys_path", "idempotency_keys"),
      DropIndex("ix_idempotency_keys_method", "idempotency_keys"),
      DropIndex("ix_idempotency_keys_key", "idempotency_keys"),
      DropTable("idempotency_keys"),
      DropIndex("ix_users_created_at", "users"),
      DropIndex("ix_users_role", "users"),
      DropIndex("ix_users_email", "users"),
      DropTable("users")>>

\* The chain of revisions: down_revision of 0002 is 0001, of 0001 none.
down_revision(revision) == IF revision = "0002" THEN "0001" ELSE "base"
up_revision(revision) == IF revision = "base" THEN "0001" ELSE "0002"

upgrade(revision) == IF revision = "0001" THEN upgrade_0001 ELSE upgrade_0002

\* A revert of 0002 that left the users table in place.
downgrade_KeepUsers(revision) ==
    IF revision = "0001" THEN downgrade_0001
    ELSE SubSeq(downgrade_0002, 1, 6)

downgrade(revision) == IF revision = "0001" THEN downgrade_0001 ELSE downgrade_0002

EmptySchema == [tables |-> {}, indexes |-> {}, fks |-> {}]

\* The database refuses the operation on this schema.
Refused(schema, o) ==
    CASE o.op = "create_table" ->
             o.name \in schema.tables \/ ~(o.fks \subseteq schema.tables \cup {o.name})
      [] o.op = "create_index" ->
             o.table \notin schema.tables \/ \E i \in schema.indexes : i[1] = o.name
      [] o.op = "drop_index" -> <<o.name, o.table>> \notin schema.indexes
      [] o.op = "drop_table" ->
             \/ o.name \notin schema.tables
             \/ \E fk \in schema.fks : fk[2] = o.name /\ fk[1] # o.name

\* The schema after the operation; DROP TABLE drops the table's indexes and
\* foreign keys with it.
Apply(schema, o) ==
    CASE o.op = "create_table" ->
             [schema EXCEPT !.tables = @ \cup {o.name},
                            !.fks = @ \cup {<<o.name, t>> : t \in o.fks}]
      [] o.op = "create_index" -> [schema EXCEPT !.indexes = @ \cup {<<o.name, o.table>>}]
      [] o.op = "drop_index" -> [schema EXCEPT !.indexes = @ \ {<<o.name, o.table>>}]
      [] o.op = "drop_table" ->
             [tables |-> schema.tables \ {o.name},
              indexes |-> {i \in schema.indexes : i[2] # o.name},
              fks |-> {fk \in schema.fks : fk[1] # o.name}]

\* alembic upgrade +1 / downgrade -1: start the migration of one revision.
StartMigration(direction) ==
    /\ env.running = ""
    /\ env.commands < MaxCommands
    /\ IF direction = "upgrade" THEN env.revision # "0002" ELSE env.revision # "base"
    /\ env' = [env EXCEPT !.running = direction,
                          !.step = IF direction = "upgrade" THEN up_revision(env.revision)
                                   ELSE env.revision,
                          !.pc = 1, !.before = env.schema, !.commands = @ + 1]
    /\ UNCHANGED <<db, req, nreq, handlerOut>>

\* The running migration executes its next operation.
MigrationOp ==
    /\ env.running # ""
    /\ LET opseq == IF env.running = "upgrade" THEN upgrade(env.step)
                    ELSE downgrade(env.step)
           o == opseq[env.pc]
       IN IF Refused(env.schema, o)
          THEN env' = [env EXCEPT !.schema = env.before, !.running = "",
                                  !.last = "error", !.failed = TRUE]
          ELSE IF env.pc < Len(opseq)
          THEN env' = [env EXCEPT !.schema = Apply(env.schema, o), !.pc = @ + 1]
          ELSE env' = [env EXCEPT
                          !.schema = Apply(env.schema, o), !.running = "",
                          !.last = env.running,
                          !.revision = IF env.running = "upgrade" THEN env.step
                                       ELSE down_revision(env.step),
                          !.applied = IF env.running = "upgrade"
                                      THEN [@ EXCEPT ![env.step] = env.before] ELSE @]
    /\ UNCHANGED <<db, req, nreq, handlerOut>>

InitMigrate ==
    /\ db = EmptyDb
    /\ req = [s \in Slots |-> IdleReq]
    /\ nreq = 0
    /\ handlerOut = {}
    /\ env = [schema |-> EmptySchema, revision |-> "base", running |-> "", step |-> "",
              pc |-> 0, before |-> EmptySchema, commands |-> 0, last |-> "",
              failed |-> FALSE,
              applied |-> [r \in {"0001", "0002"} |-> EmptySchema]]

NextMigrate ==
    \/ \E direction \in {"upgrade", "downgrade"} : StartMigration(direction)
    \/ MigrationOp

SpecMigrate == InitMigrate /\ [][NextMigrate]_vars

(***************************************************************************)
(* SpecErrors: keyed writes that the application answers with an error     *)
(* (404 while contact 1 is absent, 403 for an agent, 401 for an expired    *)
(* token, 400 for a stored e-mail) are repeated after an unkeyed POST has  *)
(* created contact 1 or with the owner's token.                            *)
(***************************************************************************)
ErrorInputs ==
    {Request("PUT", <<"contacts", "1">>, Some("k1"), BodyPhone, c) :
        c \in {OwnerCreds, AgentCreds, ExpiredCreds}}
    \cup {Request("POST", <<"contacts">>, Null, BodyAlice, OwnerCreds)}
    \cup {Request("POST", <<"auth", "register">>, Some("k1"),
                  RegisterBody("owner@x", "agent"), OwnerCreds)}

NextErrors ==
    \E s \in Slots :
        \/ Dispatch(s, ErrorInputs, MaxRequests)
        \/ CallNext(s)
        \/ StoreRecord(s)

SpecErrors == Init /\ [][NextErrors]_vars

(***************************************************************************)
(* Properties of the idempotency middleware.                               *)
(***************************************************************************)
SameTuple(r, row) ==
    /\ row.key = Val(r.key) /\ row.method = r.method /\ row.path = r.path
    /\ row.body_hash = r.body_hash

\* C1: a keyed request that arrives when the record of an identical request
\* is stored, the key having been used with no other body, is answered
\* without calling the handler and writes nothing; after exactly two such
\* requests the contact the first one created exists once.
C1_SequentialExactlyOnce ==
    \A s \in Slots :
        LET r == req[s] IN
        (r.pc # "idle" /\ r.keyed /\ r.seenSame /\ ~r.seenOther) =>
            /\ r.pc = "done" /\ ~r.invoked /\ ~r.ran /\ ~r.wrote /\ r.stored = Null
            /\ (nreq = 2 /\ r.method = "POST" /\ Val(r.rec).response_status = Some(200))
                  => Cardinality(db.contacts) = 1

C1_Witness ==
    \E s \in Slots :
        LET r == req[s] IN
        /\ r.pc = "done" /\ r.keyed /\ r.seenSame /\ ~r.seenOther /\ nreq = 2
        /\ r.method = "POST" /\ Val(r.rec).response_status = Some(200)
        /\ Cardinality(db.contacts) = 1

Replayed(r) == r.pc = "done" /\ r.keyed /\ ~r.invoked

\* C2: a replayed response has the status and the JSON body that the
\* handler produced for the request whose record is replayed.
C2_ReplayFidelity ==
    \A s \in Slots :
        LET r == req[s] IN
        Replayed(r) =>
            \E e \in handlerOut :
                /\ e.id = Val(r.rec).id
                /\ Val(r.response).status_code = e.status
                /\ ClientBody(Val(r.response)) = e.body

\* C3: once a record with a request's key, method, path and body hash is
\* stored, every later request with the same four values is replayed
\* without calling the handler, whatever else was stored for the key.
C3_ReplayAfterOthers ==
    \A s \in Slots :
        LET r == req[s] IN
        (r.pc # "idle" /\ r.keyed /\ r.seenSame) => (r.pc = "done" /\ ~r.invoked)

Mismatched(r) == r.keyed /\ r.rec # Null /\ Val(r.rec).body_hash # r.body_hash

BothMissed(r, q) ==
    /\ r.pc = "done" /\ q.pc = "done" /\ r.keyed /\ q.keyed
    /\ r.key = q.key /\ r.method = q.method /\ r.path = q.path
    /\ r.body_hash = q.body_hash
    /\ r.rec = Null /\ q.rec = Null

\* C5: nothing stops two concurrent requests with the same key, method,
\* path and body that both miss the lookup: both call the handler, both
\* store a record, and the two records share the triple.
C5_RaceExecutesTwice ==
    \A s, t \in Slots :
        (s # t /\ BothMissed(req[s], req[t])) =>
            /\ req[s].invoked /\ req[t].invoked
            /\ req[s].stored # Null /\ req[t].stored # Null
            /\ req[s].stored # req[t].stored
            /\ \A x \in {req[s], req[t]} :
                  \E row \in db.idempotency_keys :
                      row.id = Val(x.stored) /\ SameTuple(x, row)

C5_Witness ==
    \E s, t \in Slots :
        /\ s # t /\ BothMissed(req[s], req[t])
        /\ req[s].method = "POST" /\ req[s].wrote /\ req[t].wrote
        /\ Cardinality(db.contacts) = 2
        /\ Cardinality({row \in db.idempotency_keys : SameTuple(req[s], row)}) = 2

(***************************************************************************)
(* Properties of authentication, the role gate and registration.           *)
(***************************************************************************)
\* The request reached routing: the middleware did not answer it itself.
Routed(r) == r.pc = "done" /\ r.invoked

Status(r) == Val(r.response).status_code

\* C6: a routed request whose token names a stored user with a role outside
\* the route's allowed set is answered 403 and its route function is not
\* run, no entity row being written; an agent is answered 200 by
\* POST /contacts and GET /contacts, which run.
C6_RoleGate ==
    \A s \in Slots :
        LET r == req[s]
            route == Route(r.method, r.path)
        IN (Routed(r) /\ r.subjectRole # Null) =>
              /\ Val(r.subjectRole) \notin AllowedRoles(route) =>
                    Status(r) = 403 /\ ~r.ran /\ ~r.wrote
              /\ (Val(r.subjectRole) = "agent"
                    /\ route \in {"update_contact", "delete_contact", "register"}) =>
                    Status(r) = 403 /\ ~r.ran /\ ~r.wrote
              /\ (Val(r.subjectRole) = "agent"
                    /\ route \in {"create_contact", "list_contacts"}) =>
                    Status(r) = 200 /\ r.ran

C6_Witness ==
    \E s \in Slots :
        LET r == req[s] IN
        /\ Routed(r) /\ r.subjectRole = Some("guest")
        /\ Route(r.method, r.path) = "create_contact"
        /\ Status(r) = 403 /\ ~r.ran

\* C7: a request to a role-gated route whose token is missing, invalid or
\* expired, or names no stored user, is answered 401 and writes no row to
\* any table, with or without an Idempotency-Key header.
C7_UnauthenticatedWritesNothing ==
    \A s \in Slots :
        LET r == req[s] IN
        (r.pc = "done" /\ RouterOf(Route(r.method, r.path)) \in env.routers
           /\ r.subjectRole = Null) =>
            Status(r) = 401 /\ ~r.wrote /\ r.stored = Null

\* C8: no two stored users share an e-mail, whatever the interleaving; a
\* register request by an owner whose e-mail is stored when it arrives is
\* answered 400 and creates no user.
C8_EmailUnique ==
    /\ \A u, v \in db.users : u.email = v.email => u = v
    /\ \A s \in Slots :
          LET r == req[s] IN
          (Routed(r) /\ r.emailExisted /\ r.subjectRole = Some("owner")) =>
              Status(r) = 400 /\ ~r.wrote

C8_Witness ==
    \E s, t \in Slots :
        /\ Routed(req[s]) /\ req[s].emailExisted /\ req[s].subjectRole = Some("owner")
        /\ JsonGet(req[s].body, "email") = Some("new@x")
        /\ Status(req[s]) = 400
        /\ req[t].pc = "done" /\ req[t].raised

(***************************************************************************)
(* Orders and payments.                                                    *)
(***************************************************************************)
\* Request s commits its payment in this step.
PaymentCommitted(s) == req[s].pc = "payment_commit" /\ req'[s].pc # "payment_commit"

\* C9: POST /payments against an existing order creates the Payment and, in
\* the same commit, sets the order's status to "paid" if and only if the input
\* status is "paid"; with any other input status every order is left as it was.
C9_PaymentSideEffect ==
    [][\A s \in Slots : PaymentCommitted(s) =>
          LET body == req[s].body
              created == db'.payments \ db.payments
          IN /\ Cardinality(created) = 1
             /\ \A p \in created : p.order_id = body.order_id /\ p.status = body.status
             /\ db.payments \subseteq db'.payments
             /\ IF body.status = "paid"
                THEN /\ \A o \in db'.orders : o.id = body.order_id => o.status = "paid"
                     /\ \A o \in db.orders : o.id # body.order_id => o \in db'.orders
                     /\ {o.id : o \in db'.orders} = {o.id : o \in db.orders}
                ELSE db'.orders = db.orders]_vars

\* A "pending" payment and then a "paid" payment were created against the same
\* order, which is now "paid".
C9_Witness ==
    \E p1, p2 \in db.payments :
        /\ p1.status = "pending" /\ p2.status = "paid" /\ p1.id < p2.id
        /\ p1.order_id = p2.order_id
        /\ \E o \in db.orders : o.id = p1.order_id /\ o.status = "paid"

\* Request s commits its order in this step.
OrderCommitted(s) == req[s].pc = "order_commit" /\ req'[s].pc # "order_commit"

\* One order item per input item, each referencing order `o`.
ItemsOf(o, items, rows) ==
    /\ Cardinality(rows) = Len(items)
    /\ \A it \in rows : it.order_id = o.id
    /\ \A i \in DOMAIN items : \E it \in rows :
          /\ it.product_id = items[i].product_id /\ it.variant_id = items[i].variant_id
          /\ it.qty = items[i].qty

\* The exact sum of price x qty over the items.
RECURSIVE ExactSum(_)
ExactSum(items) ==
    IF items = <<>> THEN 0
    ELSE items[1].price * items[1].qty + ExactSum(Tail(items))

\* m is the exact value x rounded to two fractional digits, ties away from zero.
RoundedTo2(m, x) ==
    /\ m % 10 = 0
    /\ (IF m < x THEN x - m ELSE m - x) <= 5
    /\ ((IF m < x THEN x - m ELSE m - x) = 5 =>
           (IF m < 0 THEN 0 - m ELSE m) > (IF x < 0 THEN 0 - x ELSE x))

\* The order and its items become visible in the commit step and in no other;
\* a commit that fails leaves none of them.  The persisted total is the exact
\* sum (`exact`) or the exact sum rounded to two fractional digits.
OrderCreation(exact) ==
    /\ \A s \in Slots : OrderCommitted(s) =>
          LET body == req[s].body
              orders == db'.orders \ db.orders
              rows == db'.order_items \ db.order_items
          IN IF Val(req'[s].response).status_code = 200
             THEN /\ Cardinality(orders) = 1
                  /\ \A o \in orders :
                        /\ o.status = "new" /\ o.contact_id = body.contact_id
                        /\ IF exact THEN o.total = ExactSum(body.items)
                           ELSE RoundedTo2(o.total, ExactSum(body.items))
                        /\ ItemsOf(o, body.items, rows)
             ELSE orders = {} /\ rows = {}
    /\ (\A s \in Slots : ~OrderCommitted(s)) =>
          /\ {o.id : o \in db'.orders} = {o.id : o \in db.orders}
          /\ db'.order_items = db.order_items

\* C10 (as stated): POST /orders persists, in one commit, one order with status
\* "new" and total equal to the exact sum of price x qty, and one order item
\* per input item referencing it; the order and its items become visible
\* together or not at all.
C10_OrderCreationExact == [][OrderCreation(TRUE)]_vars

\* C10 (amended): as above, with the persisted total equal to the exact sum
\* rounded to the two fractional digits of the Numeric(12, 2) column.
C10_OrderCreationRounded == [][OrderCreation(FALSE)]_vars

\* The order of the two items 10.00 x 2 and 5.50 x 1 is answered 200 with total
\* "25.50" and is stored with status "new", that total and its two items.
C10_Witness ==
    \E s \in Slots :
        /\ req[s].pc = "done" /\ Route(req[s].method, req[s].path) = "create_order"
        /\ req[s].body.items = ItemsTwo
        /\ Val(req[s].response).status_code = 200
        /\ JsonGet(Val(req[s].response).body_iterator, "total") = Some("25.50")
        /\ \E o \in db.orders :
              /\ o.id = Val(req[s].tx).id /\ o.status = "new" /\ o.total = 25500
              /\ Cardinality({it \in db.order_items : it.order_id = o.id}) = 2

(***************************************************************************)
(* Contacts.                                                               *)
(***************************************************************************)
\* The application answers request s in this step, on the given route.
AnsweredOn(s, route) ==
    /\ req[s].pc = "call_next" /\ req'[s].pc = "done"
    /\ Route(req[s].method, req[s].path) = route

StatusNow(s) == Val(req'[s].response).status_code

\* C11: PUT /contacts/{id} on an existing contact overwrites exactly the fields
\* supplied in the input, a field supplied as null being cleared, and leaves
\* the contact's other fields, every other contact and every other table
\* unchanged.
C11_PartialUpdate ==
    [][\A s \in Slots : (AnsweredOn(s, "update_contact") /\ StatusNow(s) = 200) =>
          LET id == ParseInt(req[s].path[2])
              body == req[s].body
          IN /\ \E old \in db.contacts : \E new \in db'.contacts :
                   /\ old.id = id /\ new.id = id
                   /\ \A k \in ContactFields :
                         new[k] = IF \E i \in DOMAIN body : body[i][1] = k
                                  THEN (CHOOSE pair \in {body[i] : i \in DOMAIN body} :
                                            pair[1] = k)[2]
                                  ELSE old[k]
                   /\ db'.contacts \ {new} = db.contacts \ {old}
             /\ [db' EXCEPT !.contacts = {}] = [db EXCEPT !.contacts = {}]]_vars

\* Contact 2 after PUT {"name": "Bobby", "email": null}: name overwritten,
\* email cleared, phone as it was.
C11_Witness ==
    /\ \E s \in Slots :
          /\ req[s].pc = "done" /\ Route(req[s].method, req[s].path) = "update_contact"
          /\ req[s].body = BodyNameEmailNull
          /\ Val(req[s].response).status_code = 200
    /\ ContactRow(2, Some("Bobby"), Null, Some("+1000"), Null) \in db.contacts

\* The contact named by the path of request s, and whether a row of orders,
\* interactions or tasks references it.
PathId(s) == ParseInt(req[s].path[2])
Referenced(dbv, id) ==
    \E r \in dbv.orders \cup dbv.interactions \cup dbv.tasks : r.contact_id = id
Dependents(dbv) == <<dbv.orders, dbv.interactions, dbv.tasks>>

\* A fetch is answered not-found exactly when the contact is absent, and an
\* absent contact id is never stored again.
FetchAfterDelete ==
    /\ \A s \in Slots : AnsweredOn(s, "get_contact") =>
          (StatusNow(s) = 404 <=> ~\E c \in db.contacts : c.id = PathId(s))
    /\ \A c \in db'.contacts :
          (\E x \in db.contacts : x.id = c.id) \/ c.id > db.seq["contacts"]

\* C12 (as stated): DELETE /contacts/{id} on an existing contact removes it, so
\* that every later fetch of the id is answered not-found, and the orders,
\* interactions and tasks that reference it remain stored unchanged.
C12_HardDeleteDangling ==
    [][/\ \A s \in Slots :
            (AnsweredOn(s, "delete_contact") /\ \E c \in db.contacts : c.id = PathId(s)) =>
                /\ StatusNow(s) = 200
                /\ db'.contacts = {c \in db.contacts : c.id # PathId(s)}
                /\ Dependents(db') = Dependents(db)
       /\ FetchAfterDelete]_vars

\* C12 (amended): the DELETE removes an existing contact that no order,
\* interaction or task references, and nothing else; the DELETE of a
\* referenced contact is refused by the foreign keys: it is answered 500 and
\* the contact and its dependents all remain, so no stored row ever
\* references an absent contact.
C12_HardDeleteRefused ==
    [][/\ \A s \in Slots :
            (AnsweredOn(s, "delete_contact") /\ \E c \in db.contacts : c.id = PathId(s)) =>
                IF Referenced(db, PathId(s))
                THEN StatusNow(s) = 500 /\ EntityTables(db') = EntityTables(db)
                ELSE /\ StatusNow(s) = 200
                     /\ db'.contacts = {c \in db.contacts : c.id # PathId(s)}
                     /\ [db' EXCEPT !.contacts = {}] = [db EXCEPT !.contacts = {}]
       /\ FetchAfterDelete
       /\ \A r \in db'.orders \cup db'.interactions \cup db'.tasks :
             \E c \in db'.contacts : c.id = r.contact_id]_vars

\* Contact 2 has been deleted; the DELETE of contact 1 was answered 500 and
\* contact 1 and its order are still stored.
C12_Witness ==
    /\ ~\E c \in db.contacts : c.id = 2
    /\ \E s \in Slots :
          /\ req[s].pc = "done" /\ Route(req[s].method, req[s].path) = "delete_contact"
          /\ req[s].path[2] = "1" /\ Val(req[s].response).status_code = 500
    /\ \E c \in db.contacts : c.id = 1
    /\ \E o \in db.orders : o.contact_id = 1

(***************************************************************************)
(* Tokens.                                                                 *)
(***************************************************************************)
BodyNow(s) == Val(req'[s].response).body_iterator

\* C13: login answers 200 with a token only when a user with the e-mail is
\* stored and the password verifies, and 401 otherwise; the token issued at
\* time t has iat = t and exp = iat + JWT_EXPIRES; presented before exp it is
\* accepted, presented after exp it is refused as an invalid token (401).
C13_TokenLifecycle ==
    [][\A s \in Slots :
         /\ AnsweredOn(s, "login") =>
               LET email == (CHOOSE pair \in {req[s].body[i] : i \in DOMAIN req[s].body} :
                                 pair[1] = "email")[2]
                   password == (CHOOSE pair \in {req[s].body[i] : i \in DOMAIN req[s].body} :
                                    pair[1] = "password")[2]
                   users == {u \in db.users : /\ Some(u.email) = email
                                              /\ u.password_hash = <<"bcrypt", Val(password)>>}
               IN IF users # {}
                  THEN /\ StatusNow(s) = 200
                       /\ LET token == Val(BodyNow(s)[1][2]) IN
                            /\ BodyNow(s)[1][1] = "access_token"
                            /\ token.iat = env.now
                            /\ token.exp = token.iat + JWT_EXPIRES
                            /\ \E u \in users : token.sub = ToString(u.id)
                  ELSE /\ StatusNow(s) = 401
                       /\ \A i \in DOMAIN BodyNow(s) : BodyNow(s)[i][1] # "access_token"
         /\ (AnsweredOn(s, "list_contacts") /\ req[s].creds \in IssuedCreds) =>
               LET token == Val(req[s].creds) IN
               /\ env.now < token.exp => StatusNow(s) = 200
               /\ env.now > token.exp =>
                     StatusNow(s) = 401 /\ BodyNow(s) = << <<"detail", Some("Invalid token")>> >>
      ]_vars

\* A token issued at time 1 was presented at time 4, after its exp of 3, and
\* refused.
C13_Witness ==
    /\ env.now = 4
    /\ \E s \in Slots :
          /\ req[s].pc = "done" /\ Route(req[s].method, req[s].path) = "list_contacts"
          /\ req[s].creds # Null
          /\ Val(req[s].creds).iat = 1 /\ Val(req[s].creds).exp = 3
          /\ Val(req[s].response).status_code = 401

(***************************************************************************)
(* Pagination.                                                             *)
(***************************************************************************)
\* The ids of the `limit` newest contacts after the first `offset`.
Newest(dbv, query) ==
    {c.id : c \in {c \in dbv.contacts :
        LET newer == Cardinality({d \in dbv.contacts : d.id > c.id})
        IN newer >= query.offset /\ newer < query.offset + query.limit}}

\* The list in the answer to request s.
Listed(s) == Val(BodyNow(s)[1][2])

\* The answer to s lists the contacts of Newest(db, query), newest first.
ListsNewest(s, query) ==
    /\ StatusNow(s) = 200
    /\ {Listed(s)[i] : i \in DOMAIN Listed(s)} = Newest(db, query)
    /\ \A i, j \in DOMAIN Listed(s) : i < j => Listed(s)[i] > Listed(s)[j]
    /\ Len(Listed(s)) <= 200

Unkeyed(r) == r.method \notin {"POST", "PUT", "PATCH"} \/ r.key = Null

\* C15: a request whose method is not POST, PUT or PATCH, or that carries no
\* Idempotency-Key header, goes to the handler without any lookup; no step of
\* it changes the idempotency records, and it ends with the handler invoked
\* and no record stored for it.
C15_Bypass ==
    [][\A s \in Slots : (req'[s] # req[s] /\ Unkeyed(req'[s])) =>
          /\ db'.idempotency_keys = db.idempotency_keys
          /\ req'[s].id # req[s].id =>
                /\ req'[s].pc = "call_next"
                /\ ~req'[s].keyed /\ ~req'[s].seenSame /\ ~req'[s].seenOther
          /\ req'[s].pc = "done" =>
                req'[s].invoked /\ req'[s].stored = Null /\ req'[s].pc # "store"]_vars

\* A GET carrying the key k1 was answered by the handler while a record of
\* k1 was stored, and no record has the method GET.
C15_Witness ==
    /\ \E s \in Slots :
          /\ req[s].pc = "done" /\ req[s].method = "GET" /\ req[s].key = Some("k1")
          /\ req[s].invoked /\ Val(req[s].response).status_code = 200
    /\ \E row \in db.idempotency_keys : row.key = "k1"
    /\ \A row \in db.idempotency_keys : row.method # "GET"

(***************************************************************************)
(* Migrations.                                                             *)
(***************************************************************************)
Step1Tables ==
    {"contacts", "products", "variants", "orders", "order_items", "interactions",
     "payments", "tasks", "customer_stats", "event_log"}

\* C16: no operation of a migration is refused; a revert that completes leaves
\* the tables and indexes that existed before the step was applied; at
\* revision 0001, also after 0002 was applied and reverted, the tables are
\* those of step 1 with their indexes and no others; and a revert drops a
\* table only when no remaining table has a foreign key to it.
C16_MigrationReversible ==
    [][/\ ~env'.failed
       /\ (env.running = "downgrade" /\ env'.running = "") =>
             /\ env'.schema.tables = env.applied[env.step].tables
             /\ env'.schema.indexes = env.applied[env.step].indexes
       /\ (env'.running = "" /\ env'.revision = "0001") =>
             /\ env'.schema.tables = Step1Tables
             /\ Cardinality(env'.schema.indexes) = 31
             /\ \A i \in env'.schema.indexes : i[2] \in Step1Tables
       /\ (env'.running = "" /\ env'.revision = "base") => env'.schema = EmptySchema
       /\ env.running = "downgrade" =>
             \A t \in env.schema.tables \ env'.schema.tables :
                 \A fk \in env.schema.fks :
                     fk[2] = t => fk[1] \notin env'.schema.tables]_vars

\* Steps 1 and 2 were applied and step 2 was reverted.
C16_Witness ==
    /\ env.revision = "0001" /\ env.running = "" /\ env.last = "downgrade"
    /\ "contacts" \in env.applied["0002"].tables
    /\ "contacts" \in env.schema.tables /\ "users" \notin env.schema.tables
    /\ <<"ix_orders_contact_status_created", "orders">> \in env.schema.indexes

(***************************************************************************)
(* Record persistence.                                                     *)
(***************************************************************************)
\* The handler answered request r with success and the record of r was not
\* persisted.
PersistFailed(r) ==
    /\ r.pc = "done" /\ r.keyed /\ r.invoked /\ r.stored = Null
    /\ r.handled # Null /\ Val(r.handled).status_code = 200

\* C17: when persisting the idempotency record fails after the handler
\* succeeded, the client receives the handler's successful response, and no
\* record of the request is stored, so that a retry is executed again.
C17_PersistFailureKeepsResponse ==
    \A s \in Slots : PersistFailed(req[s]) =>
        /\ req[s].response = req[s].handled
        /\ ~\E row \in db.idempotency_keys :
               row.key = Val(req[s].key) /\ row.method = req[s].method

(***************************************************************************)
(* Sessions.                                                               *)
(***************************************************************************)
\* C18: a request never holds two sessions at the same time, also when it
\* passes through the idempotency middleware before the handler, and holds
\* none once it has ended, whatever the exit path.
C18_SessionOwnership ==
    \A s \in Slots :
        /\ Cardinality(req[s].sessions) <= 1
        /\ req[s].peak <= 1
        /\ req[s].pc \in {"idle", "done"} => req[s].sessions = {}

(***************************************************************************)
(* References to absent entities.                                          *)
(***************************************************************************)
\* The entity request s refers to is not stored.
RefersToAbsent(s) ==
    LET route == Route(req[s].method, req[s].path) IN
    CASE route \in {"get_contact", "update_contact", "delete_contact"} ->
             ~\E c \in db.contacts : c.id = PathId(s)
      [] route \in {"get_order", "update_order"} -> ~\E o \in db.orders : o.id = PathId(s)
      [] route = "update_payment" -> ~\E x \in db.payments : x.id = PathId(s)
      [] route = "create_payment" -> ~\E o \in db.orders : o.id = req[s].body.order_id
      [] route = "create_order" -> ~\E c \in db.contacts : c.id = req[s].body.contact_id
      [] OTHER -> FALSE

\* C19: a request that refers to an entity that is not stored is answered with
\* a client error (4xx) and leaves every stored entity unchanged.
C19_NotFoundWritesNothing ==
    [][\A s \in Slots :
          (req[s].pc = "call_next" /\ req'[s].pc # "call_next" /\ RefersToAbsent(s)) =>
              /\ req'[s].pc = "done"
              /\ StatusNow(s) >= 400 /\ StatusNow(s) < 500
              /\ EntityTables(db') = EntityTables(db)]_vars

\* C20: POST /orders accepts only a non-empty list of line items: a request
\* whose items list is empty is rejected by input validation (422), and every
\* stored order has at least one order item.
C20_NonEmptyItems ==
    /\ \A s \in Slots :
          (/\ req[s].pc = "done"
           /\ Route(req[s].method, req[s].path) = "create_order"
           /\ req[s].body.items = <<>>) =>
              Val(req[s].response).status_code = 422
    /\ \A o \in db.orders : \E it \in db.order_items : it.order_id = o.id

(***************************************************************************)
(* Replay, access control and recorded errors.                             *)
(***************************************************************************)
\* The request was answered with a success status.
Succeeded(r) == r.pc = "done" /\ Status(r) >= 200 /\ Status(r) < 300

\* C21: a success response of a role-gated route, replayed ones included, is
\* delivered only to a request whose token is valid and names a stored user
\* with a role in the route's allowed set.
C21_ReplayKeepsAccessControl ==
    \A s \in Slots :
        LET r == req[s]
            route == Route(r.method, r.path)
        IN (Succeeded(r) /\ RouterOf(route) \in env.routers /\ route # "login") =>
              /\ r.subjectRole # Null
              /\ Val(r.subjectRole) \in AllowedRoles(route)

\* The application answered request r with an error status.
AnsweredError(r) ==
    r.pc = "done" /\ r.keyed /\ r.invoked /\ ~r.raised /\ Status(r) >= 400

\* The record the lookup found for request r holds an error status.
FoundError(r) ==
    /\ r.rec # Null /\ Val(r.rec).response_status # Null
    /\ Val(Val(r.rec).response_status) >= 400

\* The handler would answer request r with a success now.
WouldSucceed(r) == App(db, r.method, r.path, r.creds, r.body, env, r.query).status = 200

\* C22: when the handler answers a keyed write with an error status, a record
\* of the request with that status is stored; a later request with the same
\* key, method, path and body, the key having been used with no other body,
\* is answered with the status of the record found for it, which the handler
\* produced, without the handler being called and without writing anything,
\* whatever the tables and the caller's credentials are by then.
C22_ErrorsRecorded ==
    \A s \in Slots :
        LET r == req[s] IN
        /\ AnsweredError(r) =>
              /\ r.stored # Null
              /\ \E row \in db.idempotency_keys :
                    /\ row.id = Val(r.stored) /\ SameTuple(r, row)
                    /\ row.response_status = Some(Status(r))
        /\ (r.pc # "idle" /\ r.keyed /\ r.seenSame /\ ~r.seenOther /\ FoundError(r)) =>
              /\ r.pc = "done" /\ ~r.invoked /\ ~r.ran /\ ~r.wrote /\ r.stored = Null
              /\ Status(r) = Val(Val(r.rec).response_status)
              /\ \E e \in handlerOut : e.id = Val(r.rec).id /\ e.status = Status(r)

\* A PUT /contacts/1 answered 404 while no contact was stored is repeated by
\* the owner after contact 1 was created: the 404 is replayed although the
\* handler would now answer 200.
C22_Witness ==
    \E s \in Slots :
        LET r == req[s] IN
        /\ r.pc = "done" /\ r.keyed /\ r.seenSame /\ ~r.seenOther /\ ~r.invoked
        /\ Route(r.method, r.path) = "update_contact"
        /\ Status(r) = 404 /\ WouldSucceed(r)
        /\ \E row \in db.idempotency_keys :
              SameTuple(r, row) /\ row.response_status = Some(404)
====
